---- MODULE Spec2Model ----
(***************************************************************************)
(* Model of bot.py: a Telegram quiz bot.  A scheduled batch run sends      *)
(* questions with an inline keyboard whose buttons carry a choice token    *)
(* "chapter|qid|opt_index"; a button click is resolved by reloading the    *)
(* chapter, locating the question by id and rendering the reveal.          *)
(*                                                                         *)
(* Python str values that the code takes apart (chapter names, callback    *)
(* data) are sequences of code points.  Python dicts are records whose     *)
(* domain is the set of keys present.                                      *)
(***************************************************************************)
EXTENDS Integers, Sequences, FiniteSets

\* ------------------------------------------------------------------ bounds
\* the longest option list of a question
MaxOptions == 3
\* the largest configured QUESTIONS_PER_RUN
MaxRuns == 3
\* the send_questions tasks followed at once; the code sets no limit
MaxTasks == 2

\* ------------------------------------------------------- text primitives
\* A Python str that the code takes apart is the sequence of the code
\* points of its characters; Str writes one from printable ASCII characters.
Max(a, b) == IF a >= b THEN a ELSE b

\* the characters 32 to 126 in code point order (the grave accent, 96, by name)
Printable ==
    <<" ", "!", "\"", "#", "$", "%", "&", "'", "(", ")", "*", "+", ",",
      "-", ".", "/", "0", "1", "2", "3", "4", "5", "6", "7", "8", "9", ":",
      ";", "<", "=", ">", "?", "@", "A", "B", "C", "D", "E", "F", "G", "H",
      "I", "J", "K", "L", "M", "N", "O", "P", "Q", "R", "S", "T", "U", "V",
      "W", "X", "Y", "Z", "[", "\\", "]", "^", "_", "GRAVE", "a", "b", "c",
      "d", "e", "f", "g", "h", "i", "j", "k", "l", "m", "n", "o", "p", "q",
      "r", "s", "t", "u", "v", "w", "x", "y", "z", "{", "|", "}", "~">>

\* ord(c) of a printable ASCII character
Ord(c) == 31 + (CHOOSE k \in 1..Len(Printable) : Printable[k] = c)

Str(cs) == [k \in 1..Len(cs) |-> Ord(cs[k])]

Delimiter == Ord("|")
Underscore == Ord("_")
MinusSign == Ord("-")
PlusSign == Ord("+")
DigitZero == Ord("0")

\* the code points of the digit zero of every script: the decimal digits
\* (category Nd) are the ten code points from each of them (Unicode 14)
DecimalZeros ==
    {48, 1632, 1776, 1984, 2406, 2534, 2662, 2790, 2918, 3046, 3174, 3302,
     3430, 3558, 3664, 3792, 3872, 4160, 4240, 6112, 6160, 6470, 6608,
     6784, 6800, 6992, 7088, 7232, 7248, 42528, 43216, 43264, 43472,
     43504, 43600, 44016, 65296, 66720, 68912, 69734, 69872, 69942, 70096,
     70384, 70736, 70864, 71248, 71360, 71472, 71904, 72016, 72784, 73040,
     73120, 92768, 92864, 93008, 120782, 120792, 120802, 120812, 120822,
     123200, 123632, 125264, 130032}

\* the characters int() takes as white space
IntSpaces ==
    {9, 10, 11, 12, 13, 32, 133, 160, 5760, 8232, 8233, 8239, 8287, 12288}
        \cup 8192..8202

IsDigit(c) == \E z \in DecimalZeros : z <= c /\ c <= z + 9

DigitVal(c) == c - (CHOOSE z \in DecimalZeros : z <= c /\ c <= z + 9)

RECURSIVE NatToStr(_)
NatToStr(n) ==
    IF n < 10 THEN <<DigitZero + n>>
    ELSE NatToStr(n \div 10) \o <<DigitZero + (n % 10)>>

\* str(n) as the f-string in build_keyboard formats an int
IntToStr(n) == IF n < 0 THEN <<MinusSign>> \o NatToStr(0 - n) ELSE NatToStr(n)

RECURSIVE StripLeft(_)
StripLeft(s) ==
    IF s # <<>> /\ Head(s) \in IntSpaces THEN StripLeft(Tail(s)) ELSE s

RECURSIVE StripRight(_)
StripRight(s) ==
    IF s # <<>> /\ s[Len(s)] \in IntSpaces
    THEN StripRight(SubSeq(s, 1, Len(s) - 1)) ELSE s

\* the white space int() ignores around the literal
Strip(s) == StripRight(StripLeft(s))

\* the digit part of an int literal: digits, single underscores between them
DigitsOK(b) ==
    /\ b # <<>>
    /\ IsDigit(b[1])
    /\ IsDigit(b[Len(b)])
    /\ \A k \in 1..Len(b) : IsDigit(b[k]) \/ b[k] = Underscore
    /\ \A k \in 1..(Len(b) - 1) : ~(b[k] = Underscore /\ b[k + 1] = Underscore)

RECURSIVE DigitsVal(_, _)
DigitsVal(b, acc) ==
    IF b = <<>> THEN acc
    ELSE IF Head(b) = Underscore THEN DigitsVal(Tail(b), acc)
    ELSE DigitsVal(Tail(b), 10 * acc + DigitVal(Head(b)))

\* int(s) of Python on a str: ok = FALSE stands for ValueError
ParseInt(s) ==
    LET t == Strip(s)
        neg == t # <<>> /\ Head(t) = MinusSign
        signed == t # <<>> /\ Head(t) \in {MinusSign, PlusSign}
        body == IF signed THEN Tail(t) ELSE t
    IN  IF DigitsOK(body)
        THEN [ok |-> TRUE,
              val |-> IF neg THEN 0 - DigitsVal(body, 0) ELSE DigitsVal(body, 0)]
        ELSE [ok |-> FALSE, val |-> 0]

\* s.split("|"): the fields between the delimiters, at least one field
RECURSIVE SplitFrom(_, _)
SplitFrom(s, cur) ==
    IF s = <<>> THEN <<cur>>
    ELSE IF Head(s) = Delimiter THEN <<cur>> \o SplitFrom(Tail(s), <<>>)
    ELSE SplitFrom(Tail(s), Append(cur, Head(s)))

Split(s) == SplitFrom(s, <<>>)

\* variant: an index past the end reads the last element
PyIndexClamped(seq, i) ==
    IF 0 <= i /\ i < Len(seq) THEN [ok |-> TRUE, val |-> seq[i + 1]]
    ELSE IF i < 0 /\ 0 - i <= Len(seq) THEN [ok |-> TRUE, val |-> seq[Len(seq) + i + 1]]
    ELSE IF i >= Len(seq) /\ seq # <<>> THEN [ok |-> TRUE, val |-> seq[Len(seq)]]
    ELSE [ok |-> FALSE, val |-> seq]

\* seq[i] of Python, i counted from 0, negative i counted from the end;
\* ok = FALSE stands for IndexError
PyIndex(seq, i) ==
    IF 0 <= i /\ i < Len(seq) THEN [ok |-> TRUE, val |-> seq[i + 1]]
    ELSE IF i < 0 /\ 0 - i <= Len(seq) THEN [ok |-> TRUE, val |-> seq[Len(seq) + i + 1]]
    ELSE [ok |-> FALSE, val |-> seq]

\* ------------------------------------------------------------ dict access
\* o.get("correct"): an absent key gives None, which is falsy
Correct(o) == IF "correct" \in DOMAIN o THEN o.correct ELSE FALSE

\* o.get("explanation", "")
Explanation(o) == IF "explanation" \in DOMAIN o THEN o.explanation ELSE ""

\* ------------------------------------------------------- keyboard encoder
\* variant: the option index counted from 1
CallbackDataOneBased(chapter, qid, i) ==
    chapter \o <<Delimiter>> \o IntToStr(qid) \o <<Delimiter>> \o IntToStr(i + 1)

\* callback_data: chapter|qid|opt_index
CallbackData(chapter, qid, i) ==
    chapter \o <<Delimiter>> \o IntToStr(qid) \o <<Delimiter>> \o IntToStr(i)

\* one row per option, one button per row, in option order
build_keyboard(question, chapter) ==
    [k \in 1..Len(question.options) |->
        <<[text |-> question.options[k].text,
           callback_data |-> CallbackData(chapter, question.id, k - 1)]>>]

\* chapter, qid, opt_index = data.split("|"); qid = int(qid); opt_index = int(opt_index)
\* ok = FALSE stands for the ValueError of the unpacking or of int()
DecodeToken(data) ==
    LET parts == Split(data)
    IN  IF Len(parts) # 3 THEN [ok |-> FALSE]
        ELSE LET qid == ParseInt(parts[2])
                 opt == ParseInt(parts[3])
             IN  IF qid.ok /\ opt.ok
                 THEN [ok |-> TRUE, chapter |-> parts[1],
                       qid |-> qid.val, opt_index |-> opt.val]
                 ELSE [ok |-> FALSE]

\* -------------------------------------------------------- result renderer
\* variant: the first option stands in when no option is marked correct
CorrectIndexOrFirst(options) ==
    LET hits == {k \in 1..Len(options) : Correct(options[k])}
    IN  IF hits = {} THEN <<0>>
        ELSE <<(CHOOSE k \in hits : \A j \in hits : k <= j) - 1>>

\* next((i for i, o in enumerate(options) if o.get("correct")), None):
\* <<i>> for the first such index (from 0), <<>> for None
CorrectIndex(options) ==
    LET hits == {k \in 1..Len(options) : Correct(options[k])}
    IN  IF hits = {} THEN <<>>
        ELSE <<(CHOOSE k \in hits : \A j \in hits : k <= j) - 1>>

\* variant: the explanation of the correct option is shown
SelectedOptionOfCorrect(options, selected_index) ==
    IF PyIndex(options, selected_index).ok /\ CorrectIndex(options) # <<>>
    THEN PyIndex(options, CorrectIndex(options)[1])
    ELSE PyIndex(options, selected_index)

\* question["options"][selected_index], whose explanation is shown
SelectedOption(options, selected_index) == PyIndex(options, selected_index)

\* variant: the selected option is tested before the correct one
PrefixSelectedFirst(i, correct_index, selected_index) ==
    IF i = selected_index THEN "incorrect"
    ELSE IF correct_index = <<i>> THEN "correct"
    ELSE "neutral"

\* the marker of option i: lines 86 to 92
Prefix(i, correct_index, selected_index) ==
    IF correct_index = <<i>> THEN "correct"
    ELSE IF i = selected_index THEN "incorrect"
    ELSE "neutral"

\* the list `lines` that format_result_text joins with "\n": the header,
\* one line per option, the explanation line; ok = FALSE stands for the
\* IndexError of question["options"][selected_index], nothing is returned
format_result_text(question, selected_index) ==
    LET options == question.options
        correct_index == CorrectIndex(options)
        optLines == [k \in 1..Len(options) |->
                        [kind |-> "option",
                         prefix |-> Prefix(k - 1, correct_index, selected_index),
                         text |-> options[k].text]]
        sel == SelectedOption(options, selected_index)
    IN  IF ~sel.ok THEN [ok |-> FALSE]
        ELSE [ok |-> TRUE,
              lines |-> <<[kind |-> "header", prefix |-> "question", text |-> question.question]>>
                        \o optLines
                        \o <<[kind |-> "explanation", prefix |-> "bulb",
                              text |-> Explanation(sel.val)]>>]

\* ------------------------------------------------------------ input sets
\* the option dicts of the question file format: "correct" and
\* "explanation" are optional keys
OptionDicts(k) ==
    LET t == <<"opt0", "opt1", "opt2", "opt3", "opt4">>[k]
        e == <<"why0", "why1", "why2", "why3", "why4">>[k]
    IN  {[text |-> t],
         [text |-> t, correct |-> TRUE],
         [text |-> t, correct |-> FALSE],
         [text |-> t, explanation |-> e],
         [text |-> t, correct |-> TRUE, explanation |-> e],
         [text |-> t, correct |-> FALSE, explanation |-> e]}

OptionLists ==
    UNION {{os \in [1..n -> UNION {OptionDicts(k) : k \in 1..n}] :
                \A k \in 1..n : os[k] \in OptionDicts(k)} : n \in 0..MaxOptions}

QuestionIds == {0 - 7, 12}

Questions ==
    {[id |-> i, question |-> "2+2=?", options |-> os] : i \in QuestionIds, os \in OptionLists}

ChapterNames == {Str(<<"a">>), Str(<<"c", "h", "1">>), Str(<<"a", "|", "b">>)}

SelectedIndexes == (0 - (MaxOptions + 1))..(MaxOptions + 1)

HasDelimiter(chapter) == \E k \in 1..Len(chapter) : chapter[k] = Delimiter

\* ------------------------------------------------------ question banks
\* the scenario question of chapter "ch1"
Q1 == [id |-> 1, question |-> "2+2=?",
       options |-> <<[text |-> "3"],
                     [text |-> "4", correct |-> TRUE, explanation |-> "basic addition"],
                     [text |-> "5"]>>]

\* a question with no option marked correct
Q2 == [id |-> 12, question |-> "odd?",
       options |-> <<[text |-> "x", explanation |-> "why x"], [text |-> "y"]>>]

\* question 1 after an edit of the bank that removed two of its options
Q1Edited == [id |-> 1, question |-> "2+2=?",
             options |-> <<[text |-> "4", correct |-> TRUE, explanation |-> "basic addition"]>>]

BankFull == <<Q1, Q2>>
BankEdited == <<Q1Edited>>
BankEmpty == <<>>

ChA == Str(<<"a">>)
ChB == Str(<<"b">>)

\* questions/<chapter>.json: <<>> when the file does not exist, <<bank>> otherwise
FileContents == {<<>>, <<BankFull>>, <<BankEdited>>}

\* what <GITHUB_RAW_BASE><chapter>.json can answer with
RemoteBanks == {BankFull, BankEmpty}

\* callback data a click can carry: the tokens of the buttons of sent
\* messages (of this or an earlier bank), and strings no keyboard produced
ButtonTokens ==
    {CallbackData(ChA, 1, 1), CallbackData(ChA, 1, 2), CallbackData(ChA, 12, 0),
     CallbackData(ChB, 1, 1)}

\* "a|<NBSP>1|<ARABIC-INDIC DIGIT ONE>": int() takes both fields
UnicodeToken == Str(<<"a", "|">>) \o <<160>> \o Str(<<"1", "|">>) \o <<1633>>

ForgedTokens ==
    {Str(<<"a", "|", "1">>),
     Str(<<"a", "|", "1", "|", "0", "|", "0">>),
     Str(<<"a", "|", "x", "|", "0">>),
     Str(<<"a", "|", "1", "|", "x">>),
     Str(<<"a", "|", "1", "|", "-", "1">>),
     Str(<<"a", "|", "1", "|", "-", "4">>),
     Str(<<"a", "|", " ", "1", "_", "2", " ", "|", "+", "0">>),
     UnicodeToken}

Tokens == ButtonTokens \cup ForgedTokens

VARIABLES
    CHAPTERS,           \* configured chapter names, a non-empty list
    MODE,               \* "random" or "sequential"
    QUESTIONS_PER_RUN,  \* configured count
    GITHUB_RAW_BASE,    \* TRUE when a remote base is configured
    JOB_THREAD,         \* the thread the scheduler calls the job on: "loop", "worker"
    local,              \* local[chapter]: content of questions/<chapter>.json
    bjoberr,            \* TRUE when the last call of the cron job raised
    bpc,                \* bpc[r]: where send_questions task r is: "idle",
                        \* "loop" (created), "sending", "sleeping", "done"
    biter,              \* biter[r]: iterations of the loop of task r completed
    bmsg,               \* bmsg[r]: the message handed to send_message, <<>> when none
    blog,               \* blog[r]: the log entries of task r, one per send_one_question
    cpc,                \* answer_callback: "idle", "ack", "edit", "err_edit", "done"
    cdata,              \* query.data
    ctrace,             \* the steps the handler has taken, in order
    cloaded,            \* <<questions>> loaded by the handler, <<>> when none
    cq,                 \* <<question>> located by the handler, <<>> when none
    cpending,           \* the text handed to the edit in flight
    cdisplay,           \* what the clicked message shows
    cescaped,           \* TRUE when an exception left answer_callback
    fq,         \* the question the functions are applied to
    fchapter,   \* the chapter name handed to build_keyboard
    fidx,       \* the selected_index handed to format_result_text
    frender,    \* <<>> or <<result of format_result_text(fq, fidx)>>
    fkeyboard,  \* <<>> or <<build_keyboard(fq, fchapter)>>
    fdecoded    \* <<>> or <<[button, result]>>: a button's token, decoded

cfgvars == <<CHAPTERS, MODE, QUESTIONS_PER_RUN, GITHUB_RAW_BASE, JOB_THREAD>>
bvars == <<bjoberr, bpc, biter, bmsg, blog>>
cvars == <<cpc, cdata, ctrace, cloaded, cq, cpending, cdisplay, cescaped>>
botvars == <<cfgvars, local, bvars, cvars>>
fvars == <<fq, fchapter, fidx, frender, fkeyboard, fdecoded>>
vars == <<botvars, fvars>>

\* ------------------------------------------------------- question store
LocalFile(chapter) == IF chapter \in DOMAIN local THEN local[chapter] ELSE <<>>

\* the outcomes of load_questions(chapter); ok = FALSE stands for the
\* FileNotFoundError or the error of the HTTP fetch
load_questions(chapter) ==
    IF LocalFile(chapter) # <<>>
    THEN {[ok |-> TRUE, val |-> LocalFile(chapter)[1]]}
    ELSE IF GITHUB_RAW_BASE
    THEN {[ok |-> FALSE, val |-> <<>>]} \cup {[ok |-> TRUE, val |-> b] : b \in RemoteBanks}
    ELSE {[ok |-> FALSE, val |-> <<>>]}

\* ------------------------------------------------------------ dispatcher
\* the slots of the send_questions tasks in progress: a run that has not
\* ended when the job is called again goes on beside the new one.  The
\* code creates a task at every call of the job; the model follows up to
\* MaxTasks of them at once
Runs == 1..MaxTasks

\* variant: the count is not clamped
IterationsUnclamped(n) == n

\* range(max(1, QUESTIONS_PER_RUN))
Iterations(n) == Max(1, n)

\* random.choice(CHAPTERS) if MODE == "random" else CHAPTERS[0]
ChapterChoices ==
    IF MODE = "random" THEN {CHAPTERS[k] : k \in 1..Len(CHAPTERS)} ELSE {CHAPTERS[1]}

\* a task slot is free when no send_questions task occupies it
Free(r) == bpc[r] \in {"idle", "done"}

\* the scheduler calls the cron job, the lambda of main.  Called on the
\* thread of the event loop, asyncio.create_task starts a send_questions
\* task, beside the tasks of earlier calls that have not ended (the call is
\* followed while fewer than MaxTasks tasks are in progress); called on a
\* worker thread, create_task raises RuntimeError (no running event loop)
\* and no task starts
Trigger ==
    /\ \/ /\ JOB_THREAD = "worker"
          /\ ~bjoberr
          /\ bjoberr' = TRUE
          /\ UNCHANGED <<bpc, biter, bmsg, blog>>
       \/ \E r \in Runs :
             /\ JOB_THREAD = "loop"
             /\ Free(r)
             /\ \A q \in Runs : q < r => ~Free(q)
             /\ bjoberr' = FALSE
             /\ bpc' = [bpc EXCEPT ![r] =
                          IF 0 < Iterations(QUESTIONS_PER_RUN) THEN "loop" ELSE "done"]
             /\ biter' = [biter EXCEPT ![r] = 0]
             /\ blog' = [blog EXCEPT ![r] = <<>>]
             /\ bmsg' = [bmsg EXCEPT ![r] = <<>>]
    /\ UNCHANGED <<cfgvars, local, cvars, fvars>>

\* one iteration of task r up to its first await: the chapter is chosen and
\* send_one_question loads it, picks a question and hands the message to
\* send_message; an exception on the way is logged and the iteration goes
\* to its sleep
Iteration(r) ==
    \E chapter \in ChapterChoices : \E l \in load_questions(chapter) :
        IF l.ok /\ l.val # <<>>
        THEN \E k \in 1..Len(l.val) :
                /\ bmsg' = [bmsg EXCEPT ![r] =
                              <<[chapter |-> chapter,
                                 question |-> l.val[k].question,
                                 reply_markup |-> build_keyboard(l.val[k], chapter)]>>]
                /\ bpc' = [bpc EXCEPT ![r] = "sending"]
                /\ blog' = blog
        ELSE /\ bmsg' = bmsg
             /\ bpc' = [bpc EXCEPT ![r] = "sleeping"]
             /\ blog' = [blog EXCEPT ![r] = Append(@, "exception")]

\* the event loop runs the first step of the created task r: its first
\* iteration
SendBegin(r) ==
    /\ bpc[r] = "loop"
    /\ Iteration(r)
    /\ UNCHANGED <<bjoberr, biter, cfgvars, local, cvars, fvars>>

\* await application.bot.send_message(...) of task r returns or raises:
\* the attempt is logged and the task goes to its sleep
SendReturn(r) ==
    /\ bpc[r] = "sending"
    /\ \E ok \in BOOLEAN :
          blog' = [blog EXCEPT ![r] = Append(@, IF ok THEN "info" ELSE "exception")]
    /\ bmsg' = [bmsg EXCEPT ![r] = <<>>]
    /\ bpc' = [bpc EXCEPT ![r] = "sleeping"]
    /\ UNCHANGED <<bjoberr, biter, cfgvars, local, cvars, fvars>>

\* await asyncio.sleep(0.6) of task r returns: the task goes on, without
\* yielding to the event loop, with its next iteration, or ends
SleepReturn(r) ==
    /\ bpc[r] = "sleeping"
    /\ biter' = [biter EXCEPT ![r] = @ + 1]
    /\ IF biter[r] + 1 < Iterations(QUESTIONS_PER_RUN)
       THEN Iteration(r)
       ELSE /\ bpc' = [bpc EXCEPT ![r] = "done"]
            /\ UNCHANGED <<bmsg, blog>>
    /\ UNCHANGED <<bjoberr, cfgvars, local, cvars, fvars>>

\* ----------------------------------------------------- callback resolver
NoText == [kind |-> "none", lines |-> <<>>]
QuestionText == [kind |-> "question", lines |-> <<>>]
NotFoundText == [kind |-> "notfound", lines |-> <<>>]
ErrorText == [kind |-> "error", lines |-> <<>>]

\* variant: the first question is taken whatever its id
LocateQuestionAny(questions, qid) ==
    IF questions = <<>> THEN <<>> ELSE <<questions[1]>>

\* next((qq for qq in questions if int(qq.get("id")) == qid), None):
\* <<qq>> for the first question with that id, <<>> for None
LocateQuestion(questions, qid) ==
    LET hits == {k \in 1..Len(questions) : questions[k].id = qid}
    IN  IF hits = {} THEN <<>>
        ELSE <<questions[CHOOSE k \in hits : \A j \in hits : k <= j]>>

\* the exception handler of answer_callback: log, then edit to the error text
Failed(steps, loaded, question) ==
    [trace |-> steps \o <<"log_exception">>, pc |-> "err_edit",
     loaded |-> loaded, question |-> question, pending |-> ErrorText]

\* the body of the try block of answer_callback up to its first await, for
\* each outcome of the load: the steps taken, the question located and the
\* edit the handler goes on to await
Resolutions(data) ==
    LET d == DecodeToken(data)
    IN  IF ~d.ok THEN {Failed(<<"decode">>, <<>>, <<>>)}
        ELSE {IF ~l.ok THEN Failed(<<"decode", "load">>, <<>>, <<>>)
              ELSE LET question == LocateQuestion(l.val, d.qid)
                   IN  IF question = <<>>
                       THEN [trace |-> <<"decode", "load", "locate", "edit_notfound">>,
                             pc |-> "edit", loaded |-> <<l.val>>, question |-> <<>>,
                             pending |-> NotFoundText]
                       ELSE LET new_text == format_result_text(question[1], d.opt_index)
                            IN  IF ~new_text.ok
                                THEN Failed(<<"decode", "load", "locate", "render">>,
                                            <<l.val>>, question)
                                ELSE [trace |-> <<"decode", "load", "locate", "render",
                                                  "edit_reveal">>,
                                      pc |-> "edit", loaded |-> <<l.val>>,
                                      question |-> question,
                                      pending |-> [kind |-> "reveal", lines |-> new_text.lines]]
              : l \in load_questions(d.chapter)}

\* the transport delivers a button click: answer_callback starts
Click ==
    /\ cpc \in {"idle", "done"}
    /\ \E data \in Tokens : cdata' = data
    /\ cpc' = "ack"
    /\ ctrace' = <<>>
    /\ cloaded' = <<>>
    /\ cq' = <<>>
    /\ cpending' = NoText
    /\ cdisplay' = QuestionText
    /\ cescaped' = FALSE
    /\ UNCHANGED <<cfgvars, local, bvars, fvars>>

\* variant: the click is acknowledged after the try block has run
AcknowledgeLate ==
    /\ cpc = "ack"
    /\ \E r \in Resolutions(cdata) :
          /\ ctrace' = r.trace \o <<"ack">>
          /\ cpc' = r.pc
          /\ cloaded' = r.loaded
          /\ cq' = r.question
          /\ cpending' = r.pending
          /\ UNCHANGED cescaped
    /\ UNCHANGED <<cdata, cdisplay, cfgvars, local, bvars, fvars>>

\* await query.answer() returns or raises; it is outside the try block, so
\* its exception leaves the handler; after it the try block runs up to the
\* await of the edit
Acknowledge ==
    /\ cpc = "ack"
    /\ \/ /\ ctrace' = <<"ack_failed">>
          /\ cescaped' = TRUE
          /\ cpc' = "done"
          /\ UNCHANGED <<cloaded, cq, cpending>>
       \/ \E r \in Resolutions(cdata) :
             /\ ctrace' = <<"ack">> \o r.trace
             /\ cpc' = r.pc
             /\ cloaded' = r.loaded
             /\ cq' = r.question
             /\ cpending' = r.pending
             /\ UNCHANGED cescaped
    /\ UNCHANGED <<cdata, cdisplay, cfgvars, local, bvars, fvars>>

\* await query.edit_message_text(...) inside the try block returns or raises
EditReturn ==
    /\ cpc = "edit"
    /\ \/ /\ cdisplay' = cpending
          /\ cpending' = NoText
          /\ cpc' = "done"
          /\ UNCHANGED ctrace
       \/ /\ ctrace' = ctrace \o <<"log_exception">>
          /\ cpending' = ErrorText
          /\ cpc' = "err_edit"
          /\ UNCHANGED cdisplay
    /\ UNCHANGED <<cdata, cloaded, cq, cescaped, cfgvars, local, bvars, fvars>>

\* await query.edit_message_text("An error occurred ...") in the except
\* block returns or raises; nothing catches what it raises
ErrorEditReturn ==
    /\ cpc = "err_edit"
    /\ \/ /\ ctrace' = ctrace \o <<"edit_error">>
          /\ cdisplay' = ErrorText
          /\ UNCHANGED cescaped
       \/ /\ ctrace' = ctrace \o <<"edit_error_failed">>
          /\ cescaped' = TRUE
          /\ UNCHANGED cdisplay
    /\ cpending' = NoText
    /\ cpc' = "done"
    /\ UNCHANGED <<cdata, cloaded, cq, cfgvars, local, bvars, fvars>>

\* the question bank of a chapter is edited, created or removed on disk
ChangeBank ==
    /\ \E chapter \in DOMAIN local : \E f \in FileContents :
          /\ f # local[chapter]
          /\ local' = [local EXCEPT ![chapter] = f]
    /\ UNCHANGED <<cfgvars, bvars, cvars, fvars>>

\* --------------------------------------------------------- specification
\* the configurations the start-up code accepts: CHAPTERS is not empty
Configurations ==
    {[chapters |-> <<ChA, ChB>>, base |-> FALSE, mode |-> "sequential"],
     [chapters |-> <<ChB, ChA>>, base |-> TRUE, mode |-> "random"]}

FnIdle ==
    /\ fq = Q1
    /\ fchapter = ChA
    /\ fidx = 0
    /\ frender = <<>>
    /\ fkeyboard = <<>>
    /\ fdecoded = <<>>

HandlersIdle ==
    /\ bjoberr = FALSE
    /\ bpc = [r \in Runs |-> "idle"]
    /\ biter = [r \in Runs |-> 0]
    /\ bmsg = [r \in Runs |-> <<>>]
    /\ blog = [r \in Runs |-> <<>>]
    /\ cpc = "idle"
    /\ cdata = <<>>
    /\ ctrace = <<>>
    /\ cloaded = <<>>
    /\ cq = <<>>
    /\ cpending = NoText
    /\ cdisplay = QuestionText
    /\ cescaped = FALSE

Init ==
    /\ \E c \in Configurations :
          /\ CHAPTERS = c.chapters
          /\ GITHUB_RAW_BASE = c.base
          /\ MODE = c.mode
    /\ JOB_THREAD \in {"loop", "worker"}
    /\ QUESTIONS_PER_RUN \in 0..MaxRuns
    /\ local \in [{ChA} -> FileContents]
    /\ HandlersIdle
    /\ FnIdle

\* the steps of the scheduled runs
BatchNext ==
    \/ Trigger
    \/ \E r \in Runs : SendBegin(r)
    \/ \E r \in Runs : SendReturn(r)
    \/ \E r \in Runs : SleepReturn(r)
    \/ ChangeBank

\* the steps of the handling of clicks
ClickNext ==
    \/ Click
    \/ Acknowledge
    \/ EditReturn
    \/ ErrorEditReturn
    \/ ChangeBank

Next == BatchNext \/ ClickNext

\* the program: the event loop interleaves the runs and the click handler
Spec == Init /\ [][Next]_vars

\* the runs and the click handler share no variable they write: each is
\* also specified on its own, the other staying idle
BatchSpec == Init /\ [][BatchNext]_vars

ClickSpec == Init /\ [][ClickNext]_vars

\* the event loop runs a started send_questions task to each of its awaits,
\* and the awaited send and sleep return or raise
FairBatchSpec ==
    BatchSpec /\ \A r \in Runs :
        WF_vars(SendBegin(r)) /\ WF_vars(SendReturn(r)) /\ WF_vars(SleepReturn(r))

\* ------------------------------------------ function-level specification
FnInit ==
    /\ fq \in Questions
    /\ fchapter \in ChapterNames
    /\ fidx \in SelectedIndexes
    /\ frender = <<>>
    /\ fkeyboard = <<>>
    /\ fdecoded = <<>>
    /\ CHAPTERS = <<ChA>>
    /\ GITHUB_RAW_BASE = FALSE
    /\ MODE = "random"
    /\ JOB_THREAD = "loop"
    /\ QUESTIONS_PER_RUN = 1
    /\ local = [c \in {ChA} |-> <<BankFull>>]
    /\ HandlersIdle

FnRender ==
    /\ frender = <<>>
    /\ frender' = <<format_result_text(fq, fidx)>>
    /\ UNCHANGED <<fq, fchapter, fidx, fkeyboard, fdecoded, botvars>>

FnEncode ==
    /\ fkeyboard = <<>>
    /\ fkeyboard' = <<build_keyboard(fq, fchapter)>>
    /\ UNCHANGED <<fq, fchapter, fidx, frender, fdecoded, botvars>>

\* the click on button k of the keyboard hands its callback_data back
FnDecode ==
    /\ fkeyboard # <<>>
    /\ \E k \in 1..Len(fkeyboard[1]) :
          fdecoded' = <<[button |-> k - 1,
                         result |-> DecodeToken(fkeyboard[1][k][1].callback_data)]>>
    /\ UNCHANGED <<fq, fchapter, fidx, frender, fkeyboard, botvars>>

FnNext == FnRender \/ FnEncode \/ FnDecode

FnSpec == FnInit /\ [][FnNext]_vars

\* ------------------------------------------------------ properties: tokens
\* C4: for a chapter name without "|", every button k of the keyboard shows
\* option k and carries a token that decodes (split on "|", int of fields 2
\* and 3) to exactly (chapter, id, k), the buttons being in option order
C4_TokenRoundTrip ==
    ~HasDelimiter(fchapter) =>
        /\ fkeyboard # <<>> =>
              /\ Len(fkeyboard[1]) = Len(fq.options)
              /\ \A k \in 1..Len(fkeyboard[1]) :
                    /\ Len(fkeyboard[1][k]) = 1
                    /\ fkeyboard[1][k][1].text = fq.options[k].text
        /\ fdecoded # <<>> =>
              fdecoded[1].result = [ok |-> TRUE, chapter |-> fchapter, qid |-> fq.id,
                                    opt_index |-> fdecoded[1].button]

C4_Witness ==
    /\ fdecoded # <<>>
    /\ ~HasDelimiter(fchapter)
    /\ Len(fchapter) = 3
    /\ fq.id < 0
    /\ fdecoded[1].button = 2
    /\ fdecoded[1].result.ok
    /\ fdecoded[1].result.opt_index = 2

\* --------------------------------------------------- properties: renderer
RenderedLines == frender[1].lines

OptionLine(i) == RenderedLines[i + 2]

\* i is the index of the first option whose correct flag is true
IsCorrectIndex(options, i) ==
    /\ "correct" \in DOMAIN options[i + 1]
    /\ options[i + 1].correct = TRUE
    /\ \A j \in 0..(i - 1) :
          ~("correct" \in DOMAIN options[j + 1] /\ options[j + 1].correct = TRUE)

NumberCorrect(options) ==
    Cardinality({k \in 1..Len(options) :
                    "correct" \in DOMAIN options[k] /\ options[k].correct = TRUE})

\* C5: format_result_text with selected_index >= len(options) fails and
\* returns nothing: no formatted text, not even a part of it
C5_OutOfRangeFails ==
    (frender # <<>> /\ fidx >= Len(fq.options)) =>
        /\ ~frender[1].ok
        /\ DOMAIN frender[1] = {"ok"}

C5_Witness ==
    /\ frender # <<>>
    /\ Len(fq.options) = 2
    /\ fidx = 2
    /\ ~frender[1].ok

\* C6: for an in-range selected_index the rendering has one line per option
\* in option order; option i carries the correct marker iff i is the index of
\* the first option flagged correct, the incorrect marker iff i is the
\* selected index and that is not the correct index, the neutral marker
\* otherwise; the explanation shown is the selected option's, "" if it has none
C6_RenderMarksOptions ==
    (frender # <<>> /\ 0 <= fidx /\ fidx < Len(fq.options)) =>
        LET n == Len(fq.options)
        IN  /\ frender[1].ok
            /\ Len(RenderedLines) = n + 2
            /\ RenderedLines[1].kind = "header"
            /\ \A i \in 0..(n - 1) :
                  /\ OptionLine(i).kind = "option"
                  /\ OptionLine(i).text = fq.options[i + 1].text
                  /\ OptionLine(i).prefix = "correct" <=> IsCorrectIndex(fq.options, i)
                  /\ OptionLine(i).prefix = "incorrect" <=>
                        (i = fidx /\ ~IsCorrectIndex(fq.options, fidx))
                  /\ OptionLine(i).prefix = "neutral" <=>
                        (~IsCorrectIndex(fq.options, i) /\ i # fidx)
            /\ RenderedLines[n + 2].kind = "explanation"
            /\ RenderedLines[n + 2].text =
                  IF "explanation" \in DOMAIN fq.options[fidx + 1]
                  THEN fq.options[fidx + 1].explanation ELSE ""

C6_Witness ==
    /\ frender # <<>>
    /\ Len(fq.options) = 3
    /\ fidx = 0
    /\ IsCorrectIndex(fq.options, 1)
    /\ "explanation" \in DOMAIN fq.options[2]
    /\ "explanation" \notin DOMAIN fq.options[1]
    /\ OptionLine(0).prefix = "incorrect"
    /\ OptionLine(1).prefix = "correct"
    /\ OptionLine(2).prefix = "neutral"
    /\ RenderedLines[5].text = ""

\* C7: when exactly one option is flagged correct and it is the selected one,
\* its line carries the correct marker and no line carries the incorrect marker
C7_CorrectSelection ==
    (/\ frender # <<>>
     /\ NumberCorrect(fq.options) = 1
     /\ 0 <= fidx /\ fidx < Len(fq.options)
     /\ IsCorrectIndex(fq.options, fidx)) =>
        /\ frender[1].ok
        /\ OptionLine(fidx).prefix = "correct"
        /\ \A k \in 1..Len(RenderedLines) : RenderedLines[k].prefix # "incorrect"

C7_Witness ==
    /\ frender # <<>>
    /\ Len(fq.options) = 3
    /\ NumberCorrect(fq.options) = 1
    /\ fidx = 2
    /\ IsCorrectIndex(fq.options, 2)
    /\ OptionLine(2).prefix = "correct"

\* C8: when no option is flagged correct, no line of the rendering carries
\* the correct marker, whatever the selected index
C8_NoCorrectMarker ==
    (frender # <<>> /\ NumberCorrect(fq.options) = 0 /\ frender[1].ok) =>
        \A k \in 1..Len(RenderedLines) : RenderedLines[k].prefix # "correct"

C8_Witness ==
    /\ frender # <<>>
    /\ NumberCorrect(fq.options) = 0
    /\ Len(fq.options) = 3
    /\ "correct" \in DOMAIN fq.options[1]
    /\ fidx = 0
    /\ frender[1].ok
    /\ OptionLine(0).prefix = "incorrect"

\* -------------------------------------------------- properties: handlers
Steps == {ctrace[k] : k \in 1..Len(ctrace)}

Decoded == DecodeToken(cdata)

\* C1: no exception leaves answer_callback or send_one_question, whatever
\* step of the click or of the scheduled send fails
C1_NoExceptionEscapes ==
    /\ ~cescaped
    /\ "ack_failed" \notin Steps
    /\ "edit_error_failed" \notin Steps

\* C2: a run with configured count n makes exactly max(1, n) send attempts,
\* each leaving one log entry, a failed attempt never stopping the next
\* ones, and then ends
C2_BatchAttemptsAll ==
    \A r \in Runs :
        /\ [](/\ biter[r] <= Max(1, QUESTIONS_PER_RUN)
              /\ bpc[r] = "sleeping" => Len(blog[r]) = biter[r] + 1
              /\ bpc[r] \in {"loop", "sending"} =>
                    (Len(blog[r]) = biter[r] /\ biter[r] < Max(1, QUESTIONS_PER_RUN))
              /\ bpc[r] = "done" =>
                    /\ biter[r] = Max(1, QUESTIONS_PER_RUN)
                    /\ Len(blog[r]) = Max(1, QUESTIONS_PER_RUN))
        /\ ((bpc[r] \in {"loop", "sending", "sleeping"}) ~> (bpc[r] = "done"))

C2_Witness ==
    /\ QUESTIONS_PER_RUN = 3
    /\ Len(CHAPTERS) = 2
    /\ bpc[1] = "done"
    /\ blog[1] = <<"info", "exception", "info">>
    /\ bpc[2] = "sleeping"
    /\ blog[2] = <<"exception">>

\* the token does not decode, or its option index is outside the option
\* list of the question located
StaleOrMalformed ==
    IF ~Decoded.ok THEN TRUE
    ELSE /\ cq # <<>>
         /\ (Decoded.opt_index < 0 \/ Decoded.opt_index >= Len(cq[1].options))

\* C3: a click whose token is malformed or stale never shows a reveal: the
\* handler goes to the generic error message
C3_MalformedNeverReveals ==
    ("ack" \in Steps /\ StaleOrMalformed) =>
        /\ cpending.kind # "reveal"
        /\ cdisplay.kind # "reveal"
        /\ "log_exception" \in Steps
        /\ (cpc = "done" /\ ~cescaped) => cdisplay = ErrorText

\* a well-formed token, a chapter that loaded, no question with the id
NotFoundCase ==
    /\ Decoded.ok
    /\ cloaded # <<>>
    /\ \A k \in 1..Len(cloaded[1]) : cloaded[1][k].id # Decoded.qid

\* C9 as stated: in the not-found case the message is replaced by the
\* "not found" text, the renderer is not invoked and the generic-error path
\* is not taken
C9_NotFoundNeverErrors ==
    NotFoundCase =>
        /\ "render" \notin Steps
        /\ "log_exception" \notin Steps
        /\ cpc # "err_edit"
        /\ cpc = "done" => cdisplay = NotFoundText

\* C9 amended: in the not-found case the renderer is not invoked and the
\* first edit requested is the "not found" text, which the message shows
\* once that edit succeeds; the generic-error path is taken only when that
\* edit itself fails
C9_NotFoundUnlessEditFails ==
    NotFoundCase =>
        /\ "render" \notin Steps
        /\ cq = <<>>
        /\ ctrace[1] = "ack"
        /\ SubSeq(ctrace, 2, 5) = <<"decode", "load", "locate", "edit_notfound">>
        /\ cdisplay.kind # "reveal"
        /\ cpc = "edit" => cpending = NotFoundText
        /\ "log_exception" \notin Steps =>
              /\ cpc \in {"edit", "done"}
              /\ cpc = "done" => cdisplay = NotFoundText
        /\ "log_exception" \in Steps => ctrace[6] = "log_exception"

C9_Witness ==
    /\ NotFoundCase
    /\ cdata = CallbackData(ChA, 12, 0)
    /\ cloaded = <<BankEdited>>
    /\ cpc = "done"
    /\ cdisplay = NotFoundText

ResolutionSteps ==
    {"decode", "load", "locate", "render", "edit_notfound", "edit_reveal",
     "log_exception", "edit_error", "edit_error_failed"}

\* C10: in every handling of a click the acknowledgment comes before the
\* token is decoded, the chapter loaded and any edit of the message
C10_AckBeforeResolution ==
    /\ \A k \in 1..Len(ctrace) :
          ctrace[k] \in ResolutionSteps => \E j \in 1..(k - 1) : ctrace[j] = "ack"
    /\ (cdisplay # QuestionText \/ cpending # NoText \/ cloaded # <<>>) => "ack" \in Steps

C10_Witness ==
    /\ cpc = "done"
    /\ cdisplay.kind = "reveal"
    /\ ctrace = <<"ack", "decode", "load", "locate", "render", "edit_reveal">>

====
